---- MODULE Spec2Model ----
(***************************************************************************)
(* Games Dataset Explorer (src/main.py): the load -> clean -> filter ->    *)
(* plot -> export script, one rerun per user interaction, and the          *)
(* Neighbor Similarity Finder of the design specification.                 *)
(*                                                                         *)
(* A CSV cell is a sequence of tokens: a digit, one of "," "-" "." "+",    *)
(* or a word (a maximal run of letters, kept whole).  A value of a frame   *)
(* is NA (pandas NaN / <NA>), a number m / 10^e, or a text.                *)
(***************************************************************************)
EXTENDS Integers, Sequences, FiniteSets, TLC

\* ------------------------------------------------------------------ bounds
\* Most rows a CSV file holds.
MaxRows == 2
\* Most columns the user deselects in the column multiselect.
MaxDeselect == 1

\* ------------------------------------------------------------------ values
NA == [kind |-> "na"]
Num(m, e) == [kind |-> "num", m |-> m, e |-> e]
Str(s) == [kind |-> "str", s |-> s]
IsNA(v) == v.kind = "na"
IsNum(v) == v.kind = "num"

RECURSIVE Pow10(_)
Pow10(e) == IF e = 0 THEN 1 ELSE 10 * Pow10(e - 1)

\* The number m / 10^e in lowest form, so that equal numbers are equal values.
RECURSIVE Normalize(_, _)
Normalize(m, e) ==
  IF e > 0 /\ m % 10 = 0 THEN Normalize(m \div 10, e - 1) ELSE Num(m, e)

\* a <= b on numbers.
NumLeq(a, b) == a.m * Pow10(b.e) <= b.m * Pow10(a.e)
\* The number of an integer.
OfInt(i) == Num(i, 0)

\* ------------------------------------------------------------ column names
\* A header cell: its text and the blanks around it.
Col(text) == [lead |-> 0, text |-> text, trail |-> 0]
Padded(l, text, t) == [lead |-> l, text |-> text, trail |-> t]
GameName == Col("Game Name")
Genre == Col("Genre")
Platform == Col("Platform")
ReleaseYear == Col("Release Year")
UserRating == Col("User Rating")
YearJitter == Col("year_jitter")

\* str.strip of a header cell.
Strip(c) == [c EXCEPT !.lead = 0, !.trail = 0]

SeqSet(s) == {s[i] : i \in 1..Len(s)}

\* ---------------------------------------------------------------- parsing
Digits == {"0", "1", "2", "3", "4", "5", "6", "7", "8", "9"}
DigitVal(c) ==
  CASE c = "0" -> 0 [] c = "1" -> 1 [] c = "2" -> 2 [] c = "3" -> 3
    [] c = "4" -> 4 [] c = "5" -> 5 [] c = "6" -> 6 [] c = "7" -> 7
    [] c = "8" -> 8 [] c = "9" -> 9

AllDigits(s) == \A i \in 1..Len(s) : s[i] \in Digits

RECURSIVE ParseDigits(_)
ParseDigits(s) ==
  IF s = <<>> THEN 0
  ELSE 10 * ParseDigits(SubSeq(s, 1, Len(s) - 1)) + DigitVal(s[Len(s)])

\* pd.to_numeric(errors='coerce') on one value: NaN stays NaN; a text is a
\* number when it is an optional sign, digits, and at most one decimal point
\* with at least one digit around it; anything else is coerced to NaN.
ToNumeric(v) ==
  IF IsNA(v) THEN NA
  ELSE IF IsNum(v) THEN v
  ELSE
    LET cell == v.s
        signed == Len(cell) > 0 /\ cell[1] \in {"-", "+"}
        body == IF signed THEN Tail(cell) ELSE cell
        sign == IF signed /\ cell[1] = "-" THEN -1 ELSE 1
        dots == {i \in 1..Len(body) : body[i] = "."}
    IN IF Cardinality(dots) > 1 THEN NA
       ELSE
         LET p == IF dots = {} THEN Len(body) + 1 ELSE CHOOSE i \in dots : TRUE
             ip == SubSeq(body, 1, p - 1)
             fp == SubSeq(body, p + 1, Len(body))
         IN IF AllDigits(ip) /\ AllDigits(fp) /\ Len(ip) + Len(fp) > 0
            THEN Normalize(sign * ParseDigits(ip \o fp), Len(fp))
            ELSE NA

\* ----------------------------------------------------------------- frames
\* A frame: its column names in order, and its rows in order; a row keeps the
\* index label it was read with and maps each column to a value.
Frame(columns, rows) == [columns |-> columns, rows |-> rows]
EmptyFrame == Frame(<<>>, <<>>)
HasCol(df, c) == c \in SeqSet(df.columns)
\* DataFrame.empty: no columns or no rows.
IsEmpty(df) == Len(df.columns) = 0 \/ Len(df.rows) = 0
Column(df, c) == [i \in 1..Len(df.rows) |-> df.rows[i].v[c]]
Index(df) == [i \in 1..Len(df.rows) |-> df.rows[i].idx]

\* pd.read_csv: the header row names the columns, every later line is a row
\* labelled 0, 1, ...; an empty cell reads as NaN, any other cell as its text.
ReadCsv(csv) ==
  Frame(csv.header,
        [i \in 1..Len(csv.rows) |->
           [idx |-> i - 1,
            v |-> [c \in SeqSet(csv.header) |->
                     LET k == CHOOSE j \in 1..Len(csv.header) : csv.header[j] = c
                         cell == csv.rows[i][k]
                     IN IF cell = <<>> THEN NA ELSE Str(cell)]]])

\* df.rename(columns=lambda s: s.strip())
RenameStrip(df) ==
  Frame([j \in 1..Len(df.columns) |-> Strip(df.columns[j])],
        [i \in 1..Len(df.rows) |->
           [idx |-> df.rows[i].idx,
            v |-> [c \in {Strip(d) : d \in SeqSet(df.columns)} |->
                     df.rows[i].v[CHOOSE d \in SeqSet(df.columns) : Strip(d) = c]]]])

\* df[c] = pd.to_numeric(df[c], errors='coerce'), value by value.
ToNumericColumn(df, c) ==
  Frame(df.columns,
        [i \in 1..Len(df.rows) |->
           [df.rows[i] EXCEPT !.v[c] = ToNumeric(df.rows[i].v[c])]])

\* Series.astype('Int64') of a numeric series casts safely: a value with a
\* fractional part makes the cast raise TypeError.
CastsToInt64(df, c) ==
  \A i \in 1..Len(df.rows) : IsNum(df.rows[i].v[c]) => df.rows[i].v[c].e = 0

\* load_data: the frame it returns, or the exception it raises.
Returned(df) == [ok |-> TRUE, df |-> df]
Raised(exc) == [ok |-> FALSE, exc |-> exc]

YearToNumeric(df) ==
  IF HasCol(df, ReleaseYear) THEN ToNumericColumn(df, ReleaseYear) ELSE df
RatingToNumeric(df) ==
  IF HasCol(df, UserRating) THEN ToNumericColumn(df, UserRating) ELSE df

load_data(csv) ==
  LET df0 == RenameStrip(ReadCsv(csv))
      df1 == YearToNumeric(df0)
  IN IF HasCol(df1, ReleaseYear) /\ ~CastsToInt64(df1, ReleaseYear)
     THEN Raised("TypeError")
     ELSE Returned(RatingToNumeric(df1))

\* ------------------------------------------------------------------ inputs
\* The rows a data file is made of: name, genre, platform, year and rating
\* cells as the CSV holds them.
PoolRow(name, genre, platform, year, rating) ==
  [name |-> name, genre |-> genre, platform |-> platform, year |-> year,
   rating |-> rating]
PoolRows ==
  { PoolRow(<<"Halo">>, <<"FPS">>, <<"PC">>, <<"1", "9", "9", "9">>, <<"7", ".", "5">>),
    PoolRow(<<"Zelda">>, <<"RPG">>, <<"PC">>, <<"2", "0", "0", "0">>, <<"9">>),
    PoolRow(<<>>, <<"RPG">>, <<>>, <<"2", "0", "0", "0">>, <<"7", ".", "5">>),
    PoolRow(<<"Doom">>, <<"FPS">>, <<"PC">>, <<"2", ",", "0", "0", "0">>, <<"-">>),
    PoolRow(<<"Myst">>, <<>>, <<"PC">>, <<>>, <<>>),
    PoolRow(<<"Pong">>, <<"RPG">>, <<"PC">>, <<"1", "9", "9", "9", ".", "5">>, <<"abc">>) }

\* The header rows of the data files: every column; no rating column and
\* blanks around the year column's name; no year column.
Headers ==
  { <<GameName, Genre, Platform, ReleaseYear, UserRating>>,
    <<GameName, Genre, Platform, Padded(1, "Release Year", 1)>>,
    <<GameName, Genre, Platform, UserRating>> }

CellOf(r, c) ==
  CASE c.text = "Game Name" -> r.name
    [] c.text = "Genre" -> r.genre
    [] c.text = "Platform" -> r.platform
    [] c.text = "Release Year" -> r.year
    [] c.text = "User Rating" -> r.rating

CsvLine(r, header) == [k \in 1..Len(header) |-> CellOf(r, header[k])]

Files ==
  { [header |-> h, rows |-> [i \in 1..n |-> CsvLine(rs[i], h)]] :
      h \in Headers, n \in 0..MaxRows, rs \in [1..MaxRows -> PoolRows] }

\* np.random.normal(0, 0.18, size=n): one noise value per row, in hundredths
\* of a year.
Jitters == {-18, 18}
Noise(n) == [1..n -> Jitters]

\* ------------------------------------------------------- frame operations
\* df[chosen_cols]: a new frame of the chosen columns, rows and labels kept.
Project(df, chosen) ==
  Frame(chosen,
        [i \in 1..Len(df.rows) |->
           [idx |-> df.rows[i].idx,
            v |-> [c \in SeqSet(chosen) |-> df.rows[i].v[c]]]])

\* A faulty df[mask]: the selected rows come out in reverse order.
RECURSIVE BoolIndexReversed(_, _)
BoolIndexReversed(rows, mask) ==
  IF rows = <<>> THEN <<>>
  ELSE LET rest == BoolIndexReversed(Tail(rows), Tail(mask))
       IN IF Head(mask) = "T" THEN rest \o <<Head(rows)>> ELSE rest

\* df[mask]: the rows whose mask entry is True, in order; a missing (NA) mask
\* entry selects nothing.
RECURSIVE BoolIndex(_, _)
BoolIndex(rows, mask) ==
  IF rows = <<>> THEN <<>>
  ELSE LET rest == BoolIndex(Tail(rows), Tail(mask))
       IN IF Head(mask) = "T" THEN <<Head(rows)>> \o rest ELSE rest

Filtered(df, mask) == Frame(df.columns, BoolIndex(df.rows, mask))

\* Comparisons of a nullable Int64 value with an int: NA compares to NA.
Ge3(v, x) == IF IsNA(v) THEN "NA" ELSE IF NumLeq(OfInt(x), v) THEN "T" ELSE "F"
Le3(v, x) == IF IsNA(v) THEN "NA" ELSE IF NumLeq(v, OfInt(x)) THEN "T" ELSE "F"
\* & on nullable booleans (Kleene).
And3(a, b) ==
  IF a = "F" \/ b = "F" THEN "F" ELSE IF a = "NA" \/ b = "NA" THEN "NA" ELSE "T"
\* Comparisons of float64 values: anything compared with NaN is False.
GeF(v, x) == IF IsNum(v) /\ IsNum(x) /\ NumLeq(x, v) THEN "T" ELSE "F"
LeF(v, x) == IF IsNum(v) /\ IsNum(x) /\ NumLeq(v, x) THEN "T" ELSE "F"

YearMask(df, yr) ==
  [i \in 1..Len(df.rows) |->
     And3(Ge3(df.rows[i].v[ReleaseYear], yr[1]), Le3(df.rows[i].v[ReleaseYear], yr[2]))]
\* Series.isin(selected): NaN is in no selection.
IsinMask(df, c, selected) ==
  [i \in 1..Len(df.rows) |-> IF df.rows[i].v[c] \in selected THEN "T" ELSE "F"]
RatingMask(df, rr) ==
  [i \in 1..Len(df.rows) |->
     And3(GeF(df.rows[i].v[UserRating], rr.lo), LeF(df.rows[i].v[UserRating], rr.hi))]

\* Series.dropna() as the set of its values.
NonNull(df, c) == {df.rows[i].v[c] : i \in 1..Len(df.rows)} \ {NA}

NumMin(S) == CHOOSE a \in S : \A b \in S : NumLeq(a, b)
NumMax(S) == CHOOSE a \in S : \A b \in S : NumLeq(b, a)

\* ------------------------------------------------------------ the widgets
All == Str(<<"All">>)
NoneChosen == Str(<<"(none)">>)
NoRange == [kind |-> "none"]
Range(lo, hi) == [kind |-> "range", lo |-> lo, hi |-> hi]
SliderError == [kind |-> "error"]

Keep(cols, dropped) == SelectSeq(cols, LAMBDA c : c \notin dropped)
\* st.multiselect over the columns, all selected by default.
ColumnChoices(cols) ==
  { Keep(cols, D) : D \in {E \in SUBSET SeqSet(cols) : Cardinality(E) <= MaxDeselect} }

\* years = df['Release Year'].dropna().astype(int); the slider runs from
\* min to max in steps of 1 and returns a pair lo <= hi.
YearRanges(d) ==
  LET years == NonNull(d, ReleaseYear)
      ymin == NumMin(years).m
      ymax == NumMax(years).m
  IN {<<lo, hi>> : lo \in ymin..ymax, hi \in ymin..ymax} \cap
     {r \in (ymin..ymax) \X (ymin..ymax) : r[1] <= r[2]}

\* ['All'] + sorted(unique non-null values); any subset can be selected.
Options(d, c) == {All} \cup NonNull(d, c)
Selections(d, c) == IF HasCol(d, c) THEN SUBSET Options(d, c) ELSE {{All}}

\* The rating slider runs from nanmin to nanmax; the stops of the model are
\* the ratings of the data.  With no rating at all both bounds are NaN, and
\* the slider then either refuses them or returns them.
RatingRanges(d) ==
  IF ~HasCol(d, UserRating) THEN {NoRange}
  ELSE LET rs == NonNull(d, UserRating)
       IN IF rs = {} THEN {Range(NA, NA), SliderError}
          ELSE {Range(lo, hi) : lo \in rs, hi \in rs} \cap
               {Range(lo, hi) : <<lo, hi>> \in {p \in rs \X rs : NumLeq(p[1], p[2])}}

\* ------------------------------------------------- objects and references
\* The frames live in a heap; a name of the script holds a reference to one.
\* A store is the heap with the reference the expression evaluates to.
Store(h, r) == [heap |-> h, ref |-> r]
Cur(st) == st.heap[st.ref]
\* A frame the expression builds is a new object.
NewFrame(st, f) == Store(Append(st.heap, f), Len(st.heap) + 1)
\* A faulty df.copy(): the same object under another name.
AliasFrame(st) == st
\* df.copy()
CopyFrame(st) == NewFrame(st, Cur(st))
\* df = df[chosen_cols]
SelectColumns(st, chosen) == NewFrame(st, Project(Cur(st), chosen))
\* df_filtered[(year >= lo) & (year <= hi)]
YearFilter(st, yr) == NewFrame(st, Filtered(Cur(st), YearMask(Cur(st), yr)))
\* A faulty isin filter: 'All' is not looked for in the selection.
IsinFilterAlways(st, c, selected) ==
  IF HasCol(Cur(st), c)
  THEN NewFrame(st, Filtered(Cur(st), IsinMask(Cur(st), c, selected)))
  ELSE st
\* if column in df_filtered.columns and 'All' not in selected: isin filter
IsinFilter(st, c, selected) ==
  IF HasCol(Cur(st), c) /\ All \notin selected
  THEN NewFrame(st, Filtered(Cur(st), IsinMask(Cur(st), c, selected)))
  ELSE st
\* if rating_range is not None: range filter
RatingFilter(st, rr) ==
  IF rr # NoRange
  THEN NewFrame(st, Filtered(Cur(st), RatingMask(Cur(st), rr)))
  ELSE st

DataFilter(st, yr, genres, platforms, rr) ==
  RatingFilter(
    IsinFilter(
      IsinFilter(YearFilter(CopyFrame(st), yr), Genre, genres),
      Platform, platforms),
    rr)

\* a + b on numbers; NA propagates.
NumAdd(a, b) ==
  IF IsNA(a) \/ IsNA(b) THEN NA
  ELSE LET e == IF a.e >= b.e THEN a.e ELSE b.e
       IN Normalize(a.m * Pow10(e - a.e) + b.m * Pow10(e - b.e), e)

\* df_plot['year_jitter'] = df_plot['Release Year'] + noise: the column is
\* added to the object df_plot refers to.
AddJitter(st, noise) ==
  LET f == Cur(st)
      g == Frame(Append(f.columns, YearJitter),
                 [i \in 1..Len(f.rows) |->
                    [idx |-> f.rows[i].idx,
                     v |-> [c \in SeqSet(f.columns) \cup {YearJitter} |->
                              IF c = YearJitter
                              THEN NumAdd(f.rows[i].v[ReleaseYear], Num(noise[i], 2))
                              ELSE f.rows[i].v[c]]]])
  IN Store([st.heap EXCEPT ![st.ref] = g], st.ref)

ScatterFrame(st, noise) == AddJitter(CopyFrame(st), noise)

\* ------------------------------------------------------------ the metrics
RECURSIVE NumSum(_)
NumSum(s) ==
  IF s = <<>> THEN OfInt(0) ELSE NumAdd(Head(s), NumSum(Tail(s)))

NonNullSeq(d, c) == SelectSeq(Column(d, c), LAMBDA v : ~IsNA(v))
\* Series.mean(): the sum and the count of the non-null values, NaN when
\* there is none.
Mean(d, c) ==
  LET vs == NonNullSeq(d, c)
  IN IF vs = <<>> THEN NA
     ELSE [kind |-> "ratio", sum |-> NumSum(vs), n |-> Len(vs)]
\* Series.min() / max(): NA when there is no non-null value.
Min(d, c) == IF NonNull(d, c) = {} THEN NA ELSE NumMin(NonNull(d, c))
Max(d, c) == IF NonNull(d, c) = {} THEN NA ELSE NumMax(NonNull(d, c))

Metrics(f, d) ==
  [total |-> Len(f.rows),
   delta |-> Len(f.rows) - Len(d.rows),
   avg |-> IF HasCol(f, UserRating) THEN Mean(f, UserRating) ELSE Str(<<"N/A">>),
   ymin |-> Min(f, ReleaseYear),
   ymax |-> Max(f, ReleaseYear),
   genres |-> IF HasCol(f, Genre) THEN OfInt(Cardinality(NonNull(f, Genre)))
              ELSE Str(<<"N/A">>)]

\* ------------------------------------------------------------- the export
DigitTok(d) == CHOOSE c \in Digits : DigitVal(c) = d
RECURSIVE NatDigits(_)
NatDigits(n) ==
  IF n < 10 THEN <<DigitTok(n)>> ELSE NatDigits(n \div 10) \o <<DigitTok(n % 10)>>
RECURSIVE PadZeros(_, _)
PadZeros(s, width) == IF Len(s) >= width THEN s ELSE PadZeros(<<"0">> \o s, width)

\* to_csv of one value: NaN is the empty cell, an Int64 its digits, a float
\* its digits with a decimal point, a text itself.
FormatCell(v, c) ==
  IF IsNA(v) THEN <<>>
  ELSE IF ~IsNum(v) THEN v.s
  ELSE LET a == IF v.m < 0 THEN -v.m ELSE v.m
           sgn == IF v.m < 0 THEN <<"-">> ELSE <<>>
           ip == NatDigits(a \div Pow10(v.e))
           fp == IF v.e = 0 THEN <<"0">> ELSE PadZeros(NatDigits(a % Pow10(v.e)), v.e)
       IN IF c = ReleaseYear THEN sgn \o ip ELSE sgn \o ip \o <<".">> \o fp

\* df_filtered.to_csv(index=False)
ToCsv(f) ==
  [header |-> f.columns,
   rows |-> [i \in 1..Len(f.rows) |->
               [k \in 1..Len(f.columns) |->
                  FormatCell(f.rows[i].v[f.columns[k]], f.columns[k])]]]

\* ------------------------------------------------------------------ state
VARIABLES
  csv,                \* the data file: the upload, or games_dataset.csv
  cache,              \* st.cache_data of load_data: <<>> or <<[key, value]>>
  pc,                 \* where the script run is
  heap,               \* the frames of this run
  base,               \* the frame load_data returned to this run (0: none)
  df,                 \* the script's df
  df_filtered,        \* the script's df_filtered
  df_plot,            \* the script's df_plot
  chosen_cols,        \* the column multiselect
  year_range, selected_genres, selected_platforms, rating_range,
  metrics,            \* what the four metric cards show
  game_to_inspect,    \* the selectbox
  csv_out,            \* the download's content
  exc,                \* the exception that ended the run
  stop,               \* the line of the st.stop() that ended the run
  records,            \* the Neighbor Finder's filtered record set
  anchor,             \* the identifier of the anchor record asked for
  k,                  \* the neighbor count asked for
  result,             \* the Neighbor Finder's answer
  kpc                 \* where the similarity lookup is

app_vars ==
  <<csv, cache, pc, heap, base, df, df_filtered, df_plot, chosen_cols,
    year_range, selected_genres, selected_platforms, rating_range, metrics,
    game_to_inspect, csv_out, exc, stop>>
knn_vars == <<records, anchor, k, result, kpc>>
vars == <<app_vars, knn_vars>>

NoExc == [type |-> "none", line |-> 0]
Exc(type, line) == [type |-> type, line |-> line]
NoCsv == [header |-> <<>>, rows |-> <<>>]
NoMetrics == [total |-> 0]

\* A script run starts with nothing bound.
FreshRun ==
  /\ pc' = "start"
  /\ heap' = <<>>
  /\ base' = 0
  /\ df' = 0
  /\ df_filtered' = 0
  /\ df_plot' = 0
  /\ chosen_cols' = <<>>
  /\ year_range' = <<>>
  /\ selected_genres' = {}
  /\ selected_platforms' = {}
  /\ rating_range' = NoRange
  /\ metrics' = NoMetrics
  /\ game_to_inspect' = NoneChosen
  /\ csv_out' = NoCsv
  /\ exc' = NoExc
  /\ stop' = 0

\* No similarity lookup: the script of src/main.py has none.
KnnIdle ==
  /\ records = <<>>
  /\ anchor = <<>>
  /\ k = 0
  /\ result = [kind |-> "none"]
  /\ kpc = "off"

\* The session starts with no data file bound.
Init ==
  /\ KnnIdle
  /\ csv = NoCsv
  /\ cache = <<>>
  /\ pc = "upload"
  /\ heap = <<>>
  /\ base = 0
  /\ df = 0
  /\ df_filtered = 0
  /\ df_plot = 0
  /\ chosen_cols = <<>>
  /\ year_range = <<>>
  /\ selected_genres = {}
  /\ selected_platforms = {}
  /\ rating_range = NoRange
  /\ metrics = NoMetrics
  /\ game_to_inspect = NoneChosen
  /\ csv_out = NoCsv
  /\ exc = NoExc
  /\ stop = 0

\* The run ends with an exception raised at a line of the script.
Raise(type, line) ==
  /\ pc' = "raised"
  /\ exc' = Exc(type, line)

\* df = load_data(...); if df.empty: st.stop().  A cached result is handed
\* out as a copy of its own; a call that raises caches nothing.
LoadData ==
  /\ pc = "start"
  /\ LET hit == cache # <<>> /\ cache[1].key = csv
         r == IF hit THEN Returned(cache[1].value) ELSE load_data(csv)
     IN IF ~r.ok
        THEN /\ Raise(r.exc, 30)
             /\ UNCHANGED <<cache, heap, base, df, stop>>
        ELSE /\ cache' = <<[key |-> csv, value |-> r.df]>>
             /\ heap' = <<r.df>>
             /\ base' = 1
             /\ df' = 1
             /\ IF IsEmpty(r.df)
                THEN pc' = "stopped" /\ stop' = 44
                ELSE pc' = "columns" /\ stop' = 0
             /\ exc' = NoExc
  /\ UNCHANGED knn_vars
  /\ UNCHANGED <<csv, df_filtered, df_plot, chosen_cols, year_range, selected_genres,
                 selected_platforms, rating_range, metrics, game_to_inspect,
                 csv_out>>

\* A faulty quick check: the run also stops when the rating column is missing.
HasBothNumericColumns(d) == HasCol(d, ReleaseYear) /\ HasCol(d, UserRating)
\* if 'Release Year' not in df.columns: st.error(...); st.stop()
HasYearColumn(d) == HasCol(d, ReleaseYear)

\* The column multiselect, df = df[chosen_cols], and the check that the year
\* column is there.
ColumnSelection ==
  /\ pc = "columns"
  /\ \E chosen \in ColumnChoices(heap[df].columns) :
       LET st == SelectColumns(Store(heap, df), chosen)
       IN /\ chosen_cols' = chosen
          /\ heap' = st.heap
          /\ df' = st.ref
          /\ IF ~HasYearColumn(Cur(st))
             THEN pc' = "stopped" /\ stop' = 56
             ELSE pc' = "sidebar" /\ stop' = 0
  /\ UNCHANGED knn_vars
  /\ UNCHANGED <<csv, cache, base, df_filtered, df_plot, year_range,
                 selected_genres, selected_platforms, rating_range, metrics,
                 game_to_inspect, csv_out, exc>>

\* The year slider, the genre and platform multiselects, the rating slider.
\* int(years.min()) of no year at all is int(nan): ValueError.
SidebarFilters ==
  /\ pc = "sidebar"
  /\ LET d == heap[df]
     IN IF NonNull(d, ReleaseYear) = {}
        THEN /\ Raise("ValueError", 63)
             /\ UNCHANGED <<year_range, selected_genres, selected_platforms,
                            rating_range>>
        ELSE \E yr \in YearRanges(d), g \in Selections(d, Genre),
                p \in Selections(d, Platform), rr \in RatingRanges(d) :
               /\ year_range' = yr
               /\ selected_genres' = g
               /\ selected_platforms' = p
               /\ IF rr = SliderError
                  THEN Raise("StreamlitAPIException", 82) /\ rating_range' = NoRange
                  ELSE pc' = "filter" /\ exc' = NoExc /\ rating_range' = rr
  /\ UNCHANGED knn_vars
  /\ UNCHANGED <<csv, cache, heap, base, df, df_filtered, df_plot, chosen_cols, metrics,
                 game_to_inspect, csv_out, stop>>

\* df_filtered = df.copy(), then the four filters.
DataFiltering ==
  /\ pc = "filter"
  /\ LET st == DataFilter(Store(heap, df), year_range, selected_genres,
                          selected_platforms, rating_range)
     IN /\ heap' = st.heap
        /\ df_filtered' = st.ref
  /\ pc' = "render"
  /\ UNCHANGED knn_vars
  /\ UNCHANGED <<csv, cache, base, df, df_plot, chosen_cols, year_range, selected_genres,
                 selected_platforms, rating_range, metrics, game_to_inspect,
                 csv_out, exc, stop>>

\* The metric cards, the scatter frame, the game selectbox and the download.
\* px.scatter names 'Game Name' and 'Platform' as hover data and raises
\* ValueError when df_plot lacks one; df_filtered['Game Name'] raises KeyError
\* when the column was deselected.
Render ==
  /\ pc = "render"
  /\ metrics' = Metrics(heap[df_filtered], heap[df])
  /\ LET f == heap[df_filtered]
         plots == HasCol(f, UserRating)
     IN \E noise \in Noise(Len(f.rows)) :
          LET st == IF plots THEN ScatterFrame(Store(heap, df_filtered), noise)
                    ELSE Store(heap, 0)
          IN /\ heap' = st.heap
             /\ df_plot' = st.ref
             /\ IF plots /\ ~(HasCol(f, GameName) /\ HasCol(f, Platform))
                THEN /\ Raise("ValueError", 163)
                     /\ UNCHANGED <<game_to_inspect, csv_out>>
                ELSE IF ~HasCol(f, GameName)
                THEN /\ Raise("KeyError", 202)
                     /\ UNCHANGED <<game_to_inspect, csv_out>>
                ELSE /\ game_to_inspect' \in {NoneChosen} \cup NonNull(st.heap[df_filtered], GameName)
                     /\ csv_out' = ToCsv(st.heap[df_filtered])
                     /\ pc' = "done"
                     /\ exc' = NoExc
  /\ UNCHANGED knn_vars
  /\ UNCHANGED <<csv, cache, base, df, df_filtered, chosen_cols, year_range,
                 selected_genres, selected_platforms, rating_range, stop>>

Ended == pc \in {"done", "stopped", "raised"}

\* Any interaction with a widget runs the script again from the top.
Rerun ==
  /\ Ended
  /\ FreshRun
  /\ UNCHANGED <<csv, cache>>
  /\ UNCHANGED knn_vars

\* The data file is bound: an upload, or games_dataset.csv in the app folder.
\* The script runs from the top.
Upload ==
  /\ pc = "upload"
  /\ csv' \in Files
  /\ pc' = "start"
  /\ UNCHANGED knn_vars
  /\ UNCHANGED <<cache, heap, base, df, df_filtered, df_plot, chosen_cols, year_range,
                 selected_genres, selected_platforms, rating_range, metrics,
                 game_to_inspect, csv_out, exc, stop>>

\* The user replaces the data file after a run: load_data has not been called
\* with the new one, so the cache misses.
ReplaceFile ==
  /\ pc = "start"
  /\ cache # <<>>
  /\ csv' = NoCsv
  /\ cache' = <<>>
  /\ pc' = "upload"
  /\ UNCHANGED knn_vars
  /\ UNCHANGED <<heap, base, df, df_filtered, df_plot, chosen_cols, year_range,
                 selected_genres, selected_platforms, rating_range, metrics,
                 game_to_inspect, csv_out, exc, stop>>

Next ==
  \/ LoadData
  \/ ColumnSelection
  \/ SidebarFilters
  \/ DataFiltering
  \/ Render
  \/ Rerun
  \/ Upload
  \/ ReplaceFile

Spec == Init /\ [][Next]_vars


\* ------------------------------------------------- the Neighbor Finder
\* Most records of a filtered set handed to the Neighbor Finder.
MaxN == 3
\* The largest neighbor count asked for.
MaxK == 3

Record(name, category, subcategory, score) ==
  [name |-> name, category |-> category, subcategory |-> subcategory,
   score |-> score]
KnnPool ==
  { Record(<<"Halo">>, Str(<<"FPS">>), Str(<<"PC">>), Num(75, 1)),
    Record(<<"Zelda">>, Str(<<"RPG">>), Str(<<"PC">>), Num(9, 0)),
    Record(<<"Halo">>, Str(<<"RPG">>), NA, NA),
    Record(<<"Doom">>, NA, Str(<<"PC">>), Num(9, 0)),
    Record(<<"Myst">>, Str(<<"FPS">>), Str(<<"NES">>), Num(6, 0)) }
KnnNames == {r.name : r \in KnnPool} \cup {<<"Tetris">>}

\* A null category or subcategory is the one more value "Unknown".
Unknown == Str(<<"Unknown">>)
OrUnknown(v) == IF IsNA(v) THEN Unknown ELSE v

\* The squared distance over the one-hot dimensions: two records of different
\* categories differ in two of them, by 1 each.
OneHotDiff(r, a) ==
  (IF OrUnknown(r.category) # OrUnknown(a.category) THEN 2 ELSE 0)
  + (IF OrUnknown(r.subcategory) # OrUnknown(a.subcategory) THEN 2 ELSE 0)

\* The scores as integers at one common scale.
ScoreScale(rs) ==
  LET es == {rs[i].score.e : i \in {j \in 1..Len(rs) : IsNum(rs[j].score)}}
  IN IF es = {} THEN 0 ELSE CHOOSE e \in es : \A f \in es : f <= e
ScoreInt(rs, i) == rs[i].score.m * Pow10(ScoreScale(rs) - rs[i].score.e)
Scored(rs) == {i \in 1..Len(rs) : IsNum(rs[i].score)}

RECURSIVE ScoreSumOver(_, _)
ScoreSumOver(rs, S) ==
  IF S = {} THEN 0
  ELSE LET i == CHOOSE x \in S : TRUE
       IN ScoreInt(rs, i) + ScoreSumOver(rs, S \ {i})

ScoreCount(rs) == Cardinality(Scored(rs))
ScoreSum(rs) == ScoreSumOver(rs, Scored(rs))
\* m * score, a null score imputed to the mean: m * mean = the sum.
Centred(rs, i) ==
  IF IsNum(rs[i].score) THEN ScoreCount(rs) * ScoreInt(rs, i) - ScoreSum(rs) ELSE 0
RECURSIVE SpreadOver(_, _)
SpreadOver(rs, S) ==
  IF S = {} THEN 0
  ELSE LET i == CHOOSE x \in S : TRUE
       IN Centred(rs, i) * Centred(rs, i) + SpreadOver(rs, S \ {i})
\* m^3 * the (population) variance of the non-null scores.
Spread(rs) == SpreadOver(rs, Scored(rs))

\* The squared Euclidean distance of record i to record a, times Spread: the
\* one-hot part plus ((score_i - score_a) / (stddev + eps))^2.  With every
\* score equal the score dimension is 0 for every record.
DistKey(rs, i, a) ==
  LET spread == Spread(rs)
      q == IF spread = 0 THEN 1 ELSE spread
      d == Centred(rs, i) - Centred(rs, a)
  IN OneHotDiff(rs[i], rs[a]) * q + ScoreCount(rs) * d * d

\* A faulty candidate set: the anchor is compared with itself.
CandidatesWithAnchor(rs, a) == 1..Len(rs)
\* The records compared with the anchor: every other record.
Candidates(rs, a) == (1..Len(rs)) \ {a}

\* A candidate with its distance: the squared distance is num / den, and hot
\* is its one-hot part.
Neighbor(rs, i, a) ==
  [row |-> i, record |-> rs[i], hot |-> OneHotDiff(rs[i], rs[a]),
   dist2 |-> [num |-> DistKey(rs, i, a),
              den |-> IF Spread(rs) = 0 THEN 1 ELSE Spread(rs)]]

\* The candidates among records i.. in original row order.
RECURSIVE Measured(_, _, _)
Measured(rs, a, i) ==
  IF i > Len(rs) THEN <<>>
  ELSE (IF i \in Candidates(rs, a) THEN <<Neighbor(rs, i, a)>> ELSE <<>>)
       \o Measured(rs, a, i + 1)

\* x is strictly closer than y: by distance, eps shrinking the score part of
\* two otherwise equal distances.
Closer(x, y) ==
  \/ x.dist2.num < y.dist2.num
  \/ x.dist2.num = y.dist2.num /\ x.hot < y.hot

\* A stable sort by ascending distance: ties keep their original row order.
RECURSIVE Insert(_, _)
Insert(s, x) ==
  IF s = <<>> THEN <<x>>
  ELSE IF Closer(x, Head(s)) THEN <<x>> \o s
  ELSE <<Head(s)>> \o Insert(Tail(s), x)
RECURSIVE SortByDistance(_)
SortByDistance(s) ==
  IF s = <<>> THEN <<>>
  ELSE Insert(SortByDistance(SubSeq(s, 1, Len(s) - 1)), s[Len(s)])

Min2(x, y) == IF x <= y THEN x ELSE y
\* How many neighbors are returned: k, or all of them when fewer exist.
Take(n, kk) == Min2(n, kk)

find_neighbors(rs, ident, kk) ==
  LET named == {i \in 1..Len(rs) : rs[i].name = ident}
  IN IF named = {} THEN [kind |-> "AnchorNotFound"]
     ELSE IF Len(rs) < 2 THEN [kind |-> "InsufficientData"]
     ELSE
       LET a == CHOOSE i \in named : \A j \in named : i <= j
           sorted == SortByDistance(Measured(rs, a, 1))
       IN [kind |-> "ok", anchor |-> a,
           rows |-> SubSeq(sorted, 1, Take(Len(sorted), kk))]

\* The script is not running.
AppIdle ==
  /\ csv = NoCsv
  /\ cache = <<>>
  /\ pc = "off"
  /\ heap = <<>>
  /\ base = 0
  /\ df = 0
  /\ df_filtered = 0
  /\ df_plot = 0
  /\ chosen_cols = <<>>
  /\ year_range = <<>>
  /\ selected_genres = {}
  /\ selected_platforms = {}
  /\ rating_range = NoRange
  /\ metrics = NoMetrics
  /\ game_to_inspect = NoneChosen
  /\ csv_out = NoCsv
  /\ exc = NoExc
  /\ stop = 0

KnnInit ==
  /\ AppIdle
  /\ records = <<>>
  /\ anchor = <<>>
  /\ k = 0
  /\ result = [kind |-> "none"]
  /\ kpc = "idle"

\* The user selects an anchor record and a neighbor count.
AskNeighbors ==
  /\ kpc = "idle"
  /\ anchor' \in KnnNames
  /\ k' \in 1..MaxK
  /\ kpc' = "asked"
  /\ UNCHANGED <<records, result>>
  /\ UNCHANGED app_vars

\* The lookup, recomputed from the filtered set.
FindNeighbors ==
  /\ kpc = "asked"
  /\ result' = find_neighbors(records, anchor, k)
  /\ kpc' = "answered"
  /\ UNCHANGED <<records, anchor, k>>
  /\ UNCHANGED app_vars

\* The answer is shown and dropped: nothing derived is persisted.
DropAnswer ==
  /\ kpc = "answered"
  /\ anchor' = <<>>
  /\ k' = 0
  /\ result' = [kind |-> "none"]
  /\ kpc' = "idle"
  /\ UNCHANGED records
  /\ UNCHANGED app_vars

\* A filter is widened: one more record is in the filtered set.
AddRecord ==
  /\ kpc = "idle"
  /\ Len(records) < MaxN
  /\ \E r \in KnnPool, at \in 1..Len(records) + 1 :
       records' = SubSeq(records, 1, at - 1) \o <<r>> \o SubSeq(records, at, Len(records))
  /\ UNCHANGED <<anchor, k, result, kpc>>
  /\ UNCHANGED app_vars

\* A filter is narrowed: a record leaves the filtered set.
RemoveRecord ==
  /\ kpc = "idle"
  /\ \E at \in 1..Len(records) :
       records' = SubSeq(records, 1, at - 1) \o SubSeq(records, at + 1, Len(records))
  /\ UNCHANGED <<anchor, k, result, kpc>>
  /\ UNCHANGED app_vars

KnnNext ==
  \/ AskNeighbors
  \/ FindNeighbors
  \/ DropAnswer
  \/ AddRecord
  \/ RemoveRecord

SpecKnn == KnnInit /\ [][KnnNext]_vars


\* ------------------------------------------------------------ properties
NumericCols == {ReleaseYear, UserRating}
\* The columns of the data file, by their stripped names.
SourceCols == {Strip(csv.header[j]) : j \in 1..Len(csv.header)}
\* The cell of line i of the data file under column c.
RawCell(i, c) ==
  csv.rows[i][CHOOSE j \in 1..Len(csv.header) : Strip(csv.header[j]) = c]
\* The script is past the column selection and its check.
AfterSelection ==
  \/ pc \in {"sidebar", "filter", "render", "done"}
  \/ pc = "stopped" /\ stop = 56
  \/ pc = "raised" /\ exc.line > 30

\* A name that is null or blank.
Nameless(v) == IsNA(v) \/ (v.kind = "str" /\ \A t \in 1..Len(v.s) : v.s[t] = " ")
NamelessRows(d) ==
  {i \in 1..Len(d.rows) : HasCol(d, GameName) /\ Nameless(d.rows[i].v[GameName])}

\* C1: a row whose 'Game Name' is blank or null is neither in the frame
\* load_data returns nor in the filtered set.
C1_NamelessRowsDropped ==
  /\ base # 0 => NamelessRows(heap[base]) = {}
  /\ df_filtered # 0 => NamelessRows(heap[df_filtered]) = {}

\* C2: in 'Release Year' and 'User Rating', a cell that is a bare dash is 0
\* after load_data, not null.
C2_DashIsZero ==
  base # 0 =>
    \A i \in 1..Len(csv.rows), c \in NumericCols \cap SourceCols :
      RawCell(i, c) = <<"-">> => heap[base].rows[i].v[c] = OfInt(0)

WithoutCommas(cell) == SelectSeq(cell, LAMBDA t : t # ",")
\* Digits in groups of three separated by commas, the first group of one to
\* three digits.
IsThousands(cell) ==
  LET commas == {p \in 1..Len(cell) : cell[p] = ","}
  IN /\ commas # {}
     /\ AllDigits(WithoutCommas(cell))
     /\ \E p \in commas : p \in 2..4 /\ \A q \in commas : p <= q
     /\ \A p \in commas :
          /\ p + 3 <= Len(cell)
          /\ \A q \in p + 1..p + 3 : cell[q] \in Digits
          /\ p + 3 = Len(cell) \/ cell[p + 4] = ","

\* C3: in 'Release Year' and 'User Rating', a cell with thousands separators
\* is, after load_data, the integer it writes ("12,345" is 12345).
C3_ThousandsParsed ==
  base # 0 =>
    \A i \in 1..Len(csv.rows), c \in NumericCols \cap SourceCols :
      IsThousands(RawCell(i, c)) =>
        heap[base].rows[i].v[c] = OfInt(ParseDigits(WithoutCommas(RawCell(i, c))))

\* The cell can be coerced to the declared type of column c: a number, and an
\* integer in the Int64 column 'Release Year'.
Coercible(cell, c) ==
  LET v == ToNumeric(Str(cell))
  IN IsNum(v) /\ (c = ReleaseYear => v.e = 0)

\* C4: load_data never raises, and every cell of 'Release Year' and 'User
\* Rating' that cannot be coerced to the column's type is null in its result.
C4_UnparseableIsNull ==
  /\ ~(pc = "raised" /\ exc.line = 30)
  /\ base # 0 =>
       \A i \in 1..Len(csv.rows), c \in NumericCols \cap SourceCols :
         ~Coercible(RawCell(i, c), c) => heap[base].rows[i].v[c] = NA

RatingLines == (78..84) \cup (101..103) \cup (113..117) \cup (131..138) \cup (156..167)

CleanSource ==
  \A i \in 1..Len(csv.rows), c \in NumericCols \cap SourceCols :
    RawCell(i, c) = <<>> \/ Coercible(RawCell(i, c), c)

\* C6: with a non-empty dataset, the slider bounds, the filtering and the
\* metrics (lines 61 to 124) never raise, whatever is null.  Stated for a
\* data file whose nulls are empty cells, and leaving aside the rating
\* slider's own refusal of NaN bounds (line 82), which depends on the
\* version of the widget library.
C6_NullsTolerated ==
  (pc = "raised" /\ CleanSource) => exc.line \notin (61..124) \ {82}

\* The rows of d carry strictly increasing line labels, and each is what the
\* cleaning makes of the line of the data file it is labelled with.
FromLine(r, cols) ==
  /\ r.idx \in 0..Len(csv.rows) - 1
  /\ \A c \in cols :
       LET cell == RawCell(r.idx + 1, c)
           read == IF cell = <<>> THEN NA ELSE Str(cell)
       IN r.v[c] = IF c \in NumericCols THEN ToNumeric(read) ELSE read
Increasing(d) ==
  \A i \in 1..Len(d.rows), j \in 1..Len(d.rows) :
    i < j => d.rows[i].idx < d.rows[j].idx
StableSubsequence(d) ==
  /\ Increasing(d)
  /\ \A i \in 1..Len(d.rows) : FromLine(d.rows[i], SeqSet(d.columns))
\* The rows of f are rows of d, restricted to the columns of f, in the order
\* they have in d.
SubsequenceOf(f, d) ==
  /\ Increasing(f)
  /\ \A i \in 1..Len(f.rows) :
       \E j \in 1..Len(d.rows) :
         /\ d.rows[j].idx = f.rows[i].idx
         /\ \A c \in SeqSet(f.columns) : f.rows[i].v[c] = d.rows[j].v[c]

\* C7: the rows load_data returns are the lines of the data file in their
\* order, and the rows of the filtered set are a subsequence of them: rows
\* are removed, never reordered or duplicated.
C7_StableSubsequence ==
  /\ base # 0 => StableSubsequence(heap[base])
  /\ df_filtered # 0 => SubsequenceOf(heap[df_filtered], heap[base])

\* Two different lines both pass the filters.
C7_Witness ==
  /\ pc = "done"
  /\ Len(heap[df_filtered].rows) = 2
  /\ heap[df_filtered].rows[1].v # heap[df_filtered].rows[2].v

\* C8: the frame load_data returned is never changed during a run, in any
\* rerun; df, df_filtered and df_plot are each a new frame derived from it,
\* and the jitter column exists in df_plot only.
C8_BaseNeverMutated ==
  base # 0 =>
    /\ heap[base] = LET r == load_data(csv) IN IF r.ok THEN r.df ELSE EmptyFrame
    /\ cache = <<[key |-> csv, value |-> heap[base]]>>
    /\ pc \in {"sidebar", "filter", "render", "done"} =>
         df # base /\ heap[df] = Project(heap[base], chosen_cols)
    /\ df_filtered # 0 =>
         df_filtered \notin {base, df} /\ heap[df_filtered].columns = chosen_cols
    /\ df_plot # 0 =>
         /\ df_plot \notin {base, df, df_filtered}
         /\ heap[df_plot].columns = Append(chosen_cols, YearJitter)
    /\ pc = "done" => csv_out.header = chosen_cols

\* A run that built the jittered scatter frame over a non-empty filtered set
\* and reached the download.
C8_Witness ==
  /\ pc = "done"
  /\ df_plot # 0
  /\ Len(heap[df_plot].rows) > 0
  /\ HasCol(heap[df_plot], YearJitter)
  /\ Len(chosen_cols) < Len(heap[base].columns)

\* C9: the Neighbor Finder's result never holds the anchor record, holds no
\* record twice, has at most k and at most n - 1 rows, and holds every other
\* record when fewer than k exist.
C9_NeighborsExcludeAnchor ==
  (kpc = "answered" /\ result.kind = "ok") =>
    LET n == Len(records)
        a == CHOOSE i \in 1..n :
               records[i].name = anchor /\ \A j \in 1..i - 1 : records[j].name # anchor
        got == {result.rows[r].row : r \in 1..Len(result.rows)}
    IN /\ a \notin got
       /\ Cardinality(got) = Len(result.rows)
       /\ got \subseteq 1..n
       /\ \A r \in 1..Len(result.rows) : result.rows[r].record = records[result.rows[r].row]
       /\ Len(result.rows) <= k
       /\ Len(result.rows) <= n - 1
       /\ n - 1 < k => got = (1..n) \ {a}

\* Fewer than k other records exist, and both of them are returned.
C9_Witness ==
  /\ kpc = "answered"
  /\ result.kind = "ok"
  /\ Len(records) = 3
  /\ k = 3
  /\ Len(result.rows) = 2

\* The filter predicate of a row of the column-selected dataset.
InFilter(r, d) ==
  /\ IsNum(r.v[ReleaseYear])
  /\ year_range[1] <= r.v[ReleaseYear].m
  /\ r.v[ReleaseYear].m <= year_range[2]
  /\ HasCol(d, Genre) => (All \in selected_genres \/ r.v[Genre] \in selected_genres)
  /\ HasCol(d, Platform) =>
       (All \in selected_platforms \/ r.v[Platform] \in selected_platforms)
  /\ HasCol(d, UserRating) =>
       /\ rating_range # NoRange
       /\ IsNum(r.v[UserRating])
       /\ IsNum(rating_range.lo) /\ NumLeq(rating_range.lo, r.v[UserRating])
       /\ IsNum(rating_range.hi) /\ NumLeq(r.v[UserRating], rating_range.hi)

\* C10: the filtered set is exactly the rows of the column-selected dataset
\* whose year is in the year range, whose genre (platform) is selected
\* unless 'All' is, and whose rating is in the rating range; a row with a
\* null year or a null rating is never in it.
C10_FilteredSetIsPredicate ==
  df_filtered # 0 =>
    /\ heap[df_filtered].rows = SelectSeq(heap[df].rows, LAMBDA r : InFilter(r, heap[df]))
    /\ \A i \in 1..Len(heap[df_filtered].rows) :
         /\ ~IsNA(heap[df_filtered].rows[i].v[ReleaseYear])
         /\ HasCol(heap[df], UserRating) => ~IsNA(heap[df_filtered].rows[i].v[UserRating])

\* 'All' is selected together with a genre, a row of another genre is in the
\* filtered set, a row with a null year or rating is left out.
C10_Witness ==
  /\ pc = "done"
  /\ HasCol(heap[df], Genre)
  /\ HasCol(heap[df], UserRating)
  /\ All \in selected_genres
  /\ Cardinality(selected_genres) > 1
  /\ \E i \in 1..Len(heap[df_filtered].rows) :
       heap[df_filtered].rows[i].v[Genre] \notin selected_genres
  /\ \E i \in 1..Len(heap[df].rows) :
       /\ IsNA(heap[df].rows[i].v[ReleaseYear]) \/ IsNA(heap[df].rows[i].v[UserRating])
       /\ heap[df].rows[i].idx \notin {heap[df_filtered].rows[j].idx :
                                         j \in 1..Len(heap[df_filtered].rows)}

====
